---- MODULE Spec2Model ----
(***************************************************************************)
(* CreateOrderService.execute (src/modules/orders/services/                *)
(* CreateOrderService.ts).  Each call of execute is a process whose steps  *)
(* are the collaborator calls it awaits; the synchronous code between two  *)
(* awaits belongs to the step of the await that precedes it.               *)
(***************************************************************************)
EXTENDS Integers, Sequences, FiniteSets, TLC

\* ------------------------------------------------------------------ bounds
MaxLines == 2        \* longest request of the single-call specification
MaxStock == 1        \* largest initial catalog quantity
NumCalls == 2        \* execute calls in flight in the interleaved specification
MaxDupLines == 2     \* longest request of the interleaved specification

\* ------------------------------------------------------- stores and inputs
Customers == {"c1"}                       \* ids the customers store knows
CustomerIds == {"c1", "c9"}               \* ids a caller may pass
CatalogSeq == <<"p1", "p2">>              \* the catalog's rows, in row order
CatalogIds == {CatalogSeq[i] : i \in 1..Len(CatalogSeq)}
ProductIds == {"", "p1", "p2", "p9"}      \* ids a caller may pass (any string)
Quantities == -1 .. (MaxStock + 1)        \* quantities a caller may pass (number)
Prices == {3, 10}
InitialPrice == [p \in CatalogIds |-> IF p = "p1" THEN 10 ELSE 3]

\* IProduct: one requested line
IProduct == [id : ProductIds, quantity : Quantities]

SeqsUpTo(S, n) == UNION {[1..k -> S] : k \in 0..n}

\* requests of the single-call specification
Requests == SeqsUpTo(IProduct, MaxLines)
\* requests of the interleaved specification: lines for one product, with
\* repetitions of the product id
SharedProduct == "p1"
SharedRequests == SeqsUpTo([id : {SharedProduct}, quantity : Quantities], MaxDupLines)

VARIABLES
  stock,      \* products store: id -> stored quantity
  price,      \* products store: id -> stored price
  orders,     \* orders store: the set of orders created
  calls,      \* per execute call: its position and its locals
  lastUpdate  \* history: the call whose updateQuantity was applied last, if any

vars == <<stock, price, orders, calls, lastUpdate>>

\* ------------------------------------------------------------ pure helpers
\* null | string is a sequence of at most one string
Null == <<>>
Some(x) == <<x>>

\* JavaScript truthiness of a null | string value
Truthy(v) == v # Null /\ v[1] # ""

\* existingProducts.find(p => p.id === product.id): first match or undefined
Find(existingProducts, id) ==
  LET idx == {i \in 1..Len(existingProducts) : existingProducts[i].id = id}
  IN  IF idx = {} THEN Null
      ELSE Some(existingProducts[CHOOSE i \in idx : \A j \in idx : i <= j])

\* variant of the quantity check that lets one unit too many through
InvalidQuantity_OffByOne(product, matchProduct) ==
  product.quantity > matchProduct.quantity + 1

\* product.quantity > matchProduct.quantity
InvalidQuantity(product, matchProduct) == product.quantity > matchProduct.quantity

\* variant of the spread that forgets to override the quantity
NewQuantity_NoDecrement(product, matchProduct) == matchProduct.quantity

\* matchProduct.quantity - product.quantity
NewQuantity(product, matchProduct) == matchProduct.quantity - product.quantity

\* the initial accumulator of the reduce
InitialValidation ==
  [nonExistentProducts     |-> [first |-> Null, quantity |-> 0],
   invalidQuantityProducts |-> [first |-> Null, quantity |-> 0],
   sanitizedProducts       |-> <<>>,
   productsToUpdate        |-> <<>>]

\* the reduce callback
Reducer(acc, product, existingProducts) ==
  LET matchProduct == Find(existingProducts, product.id) IN
  IF matchProduct # Null
  THEN IF InvalidQuantity(product, matchProduct[1])
       THEN [acc EXCEPT !.invalidQuantityProducts =
                          [first |-> Some(product.id), quantity |-> @.quantity + 1]]
       ELSE [acc EXCEPT
               !.productsToUpdate = Append(@,
                   [matchProduct[1] EXCEPT !.quantity = NewQuantity(product, matchProduct[1])]),
               !.sanitizedProducts = Append(@,
                   [product_id |-> product.id,
                    quantity   |-> product.quantity,
                    price      |-> matchProduct[1].price])]
  ELSE [acc EXCEPT !.nonExistentProducts =
                     [first |-> Some(product.id), quantity |-> @.quantity + 1]]

\* products.reduce(callback, initial), left to right
RECURSIVE ReduceFrom(_, _, _, _)
ReduceFrom(acc, products, i, existingProducts) ==
  IF i > Len(products) THEN acc
  ELSE ReduceFrom(Reducer(acc, products[i], existingProducts), products, i + 1, existingProducts)

Reduce(products, existingProducts) ==
  ReduceFrom(InitialValidation, products, 1, existingProducts)

\* ------------------------------------------------------------------ errors
NoError == [kind |-> "none", first |-> Null, others |-> <<>>]
CustomerNotFound == [kind |-> "CustomerNotFound", first |-> Null, others |-> <<>>]
EmptyOrder == [kind |-> "EmptyOrder", first |-> Null, others |-> <<>>]
CollaboratorFailure == [kind |-> "CollaboratorFailure", first |-> Null, others |-> <<>>]

\* `Could not find product_id '<first>'` and, when quantity > 1,
\* ` and others (<quantity - 1>) products.`
ProductNotFound(nonExistentProducts) ==
  [kind   |-> "ProductNotFound",
   first  |-> nonExistentProducts.first,
   others |-> IF nonExistentProducts.quantity > 1
              THEN <<nonExistentProducts.quantity - 1>> ELSE <<>>]

\* `The given quantity for the product '<first>' is not available.` and, when
\* quantity > 1, ` Another (<quantity - 1>) products also exceed ...`
InsufficientStock(invalidQuantityProducts) ==
  [kind   |-> "InsufficientStock",
   first  |-> invalidQuantityProducts.first,
   others |-> IF invalidQuantityProducts.quantity > 1
              THEN <<invalidQuantityProducts.quantity - 1>> ELSE <<>>]

\* the two throws that follow the reduce
ValidationError(acc) ==
  IF Truthy(acc.nonExistentProducts.first)
  THEN ProductNotFound(acc.nonExistentProducts)
  ELSE IF Truthy(acc.invalidQuantityProducts.first)
  THEN InsufficientStock(acc.invalidQuantityProducts)
  ELSE NoError

\* ----------------------------------------------------------- collaborators
\* customersRepository.findById
findById(id) == IF id \in Customers THEN Some([id |-> id]) ELSE Null

\* productsRepository.findAllById: the existing rows among the requested ids
findAllById(products) ==
  LET ids  == {products[i].id : i \in 1..Len(products)}
      rows == SelectSeq(CatalogSeq, LAMBDA p : p \in ids)
  IN  [i \in 1..Len(rows) |->
         [id |-> rows[i], quantity |-> stock[rows[i]], price |-> price[rows[i]]]]

\* productsRepository.updateQuantity: saves the rows in order, a later row of
\* the same id overwriting an earlier one
RECURSIVE updateQuantity(_, _, _)
updateQuantity(st, products, i) ==
  IF i > Len(products) THEN st
  ELSE updateQuantity([st EXCEPT ![products[i].id] = products[i].quantity], products, i + 1)

\* ordersRepository.create: the stored order, under the identity the store
\* assigns (one per create call)
create(id, customer, products) ==
  [id |-> id, customer |-> customer, products |-> products]

\* ------------------------------------------------------------------- calls
Idle ==
  [pc |-> "idle", customer_id |-> "", products |-> <<>>, customer |-> Null,
   existingProducts |-> <<>>, sanitizedProducts |-> <<>>, productsToUpdate |-> <<>>,
   error |-> NoError, order |-> Null, created |-> FALSE, updated |-> FALSE]

Awaiting == {"findById", "findAllById", "create", "updateQuantity"}
Terminal == {"done", "failed"}

Fail(c, err) == calls' = [calls EXCEPT ![c].pc = "failed", ![c].error = err]

\* execute is called: the customer look-up is issued
Execute(c, customer_id, products) ==
  /\ calls[c].pc = "idle"
  /\ calls' = [calls EXCEPT ![c].pc = "findById",
                            ![c].customer_id = customer_id,
                            ![c].products = products]
  /\ UNCHANGED <<stock, price, orders, lastUpdate>>

\* the customer look-up resolves; the two checks; the batch fetch is issued
FindById(c) ==
  /\ calls[c].pc = "findById"
  /\ LET customer == findById(calls[c].customer_id) IN
       IF customer = Null THEN Fail(c, CustomerNotFound)
       ELSE IF Len(calls[c].products) = 0 THEN Fail(c, EmptyOrder)
       ELSE calls' = [calls EXCEPT ![c].pc = "findAllById", ![c].customer = customer]
  /\ UNCHANGED <<stock, price, orders, lastUpdate>>

\* variant of the step below that stores the order before the two throws
FindAllById_CreateFirst(c) ==
  /\ calls[c].pc = "findAllById"
  /\ LET existingProducts == findAllById(calls[c].products)
         acc == Reduce(calls[c].products, existingProducts)
         err == ValidationError(acc)
         order == create(c, calls[c].customer[1], acc.sanitizedProducts)
     IN  /\ orders' = orders \cup {order}
         /\ IF err # NoError
            THEN calls' = [calls EXCEPT ![c].pc = "failed", ![c].error = err,
                                        ![c].existingProducts = existingProducts]
            ELSE calls' = [calls EXCEPT ![c].pc = "updateQuantity",
                                        ![c].existingProducts = existingProducts,
                                        ![c].sanitizedProducts = acc.sanitizedProducts,
                                        ![c].productsToUpdate = acc.productsToUpdate,
                                        ![c].order = Some(order), ![c].created = TRUE]
  /\ UNCHANGED <<stock, price, lastUpdate>>

\* the batch fetch resolves; the reduce; the two throws; create is issued
FindAllById(c) ==
  /\ calls[c].pc = "findAllById"
  /\ LET existingProducts == findAllById(calls[c].products)
         acc == Reduce(calls[c].products, existingProducts)
         err == ValidationError(acc)
     IN  IF err # NoError
         THEN calls' = [calls EXCEPT ![c].pc = "failed", ![c].error = err,
                                     ![c].existingProducts = existingProducts]
         ELSE calls' = [calls EXCEPT ![c].pc = "create",
                                     ![c].existingProducts = existingProducts,
                                     ![c].sanitizedProducts = acc.sanitizedProducts,
                                     ![c].productsToUpdate = acc.productsToUpdate]
  /\ UNCHANGED <<stock, price, orders, lastUpdate>>

\* the order is stored; updateQuantity is issued
Create(c) ==
  /\ calls[c].pc = "create"
  /\ LET order == create(c, calls[c].customer[1], calls[c].sanitizedProducts) IN
       /\ orders' = orders \cup {order}
       /\ calls' = [calls EXCEPT ![c].pc = "updateQuantity",
                                 ![c].order = Some(order), ![c].created = TRUE]
  /\ UNCHANGED <<stock, price, lastUpdate>>

\* the quantities are stored; execute returns the order
UpdateQuantity(c) ==
  /\ calls[c].pc = "updateQuantity"
  /\ stock' = updateQuantity(stock, calls[c].productsToUpdate, 1)
  /\ lastUpdate' = Some(c)
  /\ calls' = [calls EXCEPT ![c].pc = "done", ![c].updated = TRUE]
  /\ UNCHANGED <<price, orders>>

\* the awaited collaborator call rejects: the rejection propagates out of
\* execute unchanged and the stores are left as they are
Reject(c) ==
  /\ calls[c].pc \in Awaiting
  /\ Fail(c, CollaboratorFailure)
  /\ UNCHANGED <<stock, price, orders, lastUpdate>>

\* another user of the products store changes a price
ChangePrice(p, v) ==
  /\ price[p] # v
  /\ price' = [price EXCEPT ![p] = v]
  /\ UNCHANGED <<stock, orders, calls, lastUpdate>>

\* ---------------------------------------------------------- specifications
InitStores ==
  /\ stock \in [CatalogIds -> 0..MaxStock]
  /\ price = InitialPrice
  /\ orders = {}
  /\ lastUpdate = Null

\* one call, any request
Init == InitStores /\ calls = [c \in {1} |-> Idle]

Next ==
  \/ /\ calls[1].pc = "idle"
     /\ \E customer_id \in CustomerIds, products \in Requests : Execute(1, customer_id, products)
  \/ FindById(1)
  \/ FindAllById(1)
  \/ Create(1)
  \/ UpdateQuantity(1)
  \/ Reject(1)
  \/ \E p \in CatalogIds, v \in Prices : ChangePrice(p, v)

Spec == Init /\ [][Next]_vars

\* NumCalls calls of a known customer for the same product, interleaved at
\* their awaits
InitShared ==
  /\ InitStores
  /\ \A p \in CatalogIds \ {SharedProduct} : stock[p] = 0
  /\ calls = [c \in 1..NumCalls |-> Idle]

NextShared ==
  \E c \in 1..NumCalls :
    \/ /\ calls[c].pc = "idle"
       /\ \E products \in SharedRequests : Execute(c, "c1", products)
    \/ FindById(c)
    \/ FindAllById(c)
    \/ Create(c)
    \/ UpdateQuantity(c)
    \/ Reject(c)

SpecShared == InitShared /\ [][NextShared]_vars

\* -------------------------------------------------------------- properties
ValidationKinds == {"CustomerNotFound", "EmptyOrder", "ProductNotFound", "InsufficientStock"}

\* C1: a call that fails with CustomerNotFound, EmptyOrder, ProductNotFound
\* or InsufficientStock has called neither the orders store's create nor the
\* products store's updateQuantity: the set of orders and the stored
\* quantities are as they were before the call.
C1_NoWriteOnValidationFailure ==
  \A c \in DOMAIN calls :
    (calls[c].pc = "failed" /\ calls[c].error.kind \in ValidationKinds)
      => /\ ~calls[c].created
         /\ ~calls[c].updated
         /\ orders = {}
         /\ lastUpdate = Null

\* a call failed with InsufficientStock on a request that also holds a line
\* the catalog could serve
C1_Witness ==
  \E c \in DOMAIN calls :
    /\ calls[c].pc = "failed"
    /\ calls[c].error.kind = "InsufficientStock"
    /\ \E i \in 1..Len(calls[c].products) :
         LET m == Find(calls[c].existingProducts, calls[c].products[i].id) IN
           m # Null /\ calls[c].products[i].quantity <= m[1].quantity
                    /\ calls[c].products[i].quantity > 0

\* C2: an order is created only if every requested line names a product of
\* the fetched catalog entries and asks for no more than its quantity.
C2_AllLinesValidated ==
  \A c \in DOMAIN calls :
    calls[c].created =>
      \A i \in 1..Len(calls[c].products) :
        LET m == Find(calls[c].existingProducts, calls[c].products[i].id) IN
          m # Null /\ calls[c].products[i].quantity <= m[1].quantity

\* C3: the lines of a created order are one record per requested line, in
\* request order, with the line's product id and quantity and the price of
\* the matching entry of this call's batch fetch.
C3_OrderLinesMirrorRequest ==
  \A c \in DOMAIN calls :
    calls[c].created =>
      /\ Len(calls[c].order[1].products) = Len(calls[c].products)
      /\ \A i \in 1..Len(calls[c].products) :
           LET m == Find(calls[c].existingProducts, calls[c].products[i].id)
               line == calls[c].order[1].products[i]
           IN  /\ m # Null
               /\ line.product_id = calls[c].products[i].id
               /\ line.quantity = calls[c].products[i].quantity
               /\ line.price = m[1].price

\* C4: right after the bulk update of a successful call, every ordered
\* product's stored quantity is its fetched quantity minus the quantity the
\* order holds for that product (all of its lines).
C4_ExactDecrement ==
  \A c \in DOMAIN calls :
    (calls[c].pc = "done" /\ lastUpdate = Some(c)) =>
      \A k \in 1..Len(calls[c].existingProducts) :
        LET e == calls[c].existingProducts[k]
            lines == calls[c].sanitizedProducts
            total[i \in 0..Len(lines)] ==
              IF i = 0 THEN 0
              ELSE total[i - 1] + (IF lines[i].product_id = e.id THEN lines[i].quantity ELSE 0)
        IN  stock[e.id] = e.quantity - total[Len(lines)]

\* C5: a ProductNotFound (InsufficientStock) failure names the first line, in
\* request order, whose product is missing (whose quantity exceeds the
\* stock), and carries the count of such lines minus one exactly when there
\* is more than one.
C5_FirstOffenderReported ==
  \A c \in DOMAIN calls :
    LET n == Len(calls[c].products)
        missing == {i \in 1..n : Find(calls[c].existingProducts, calls[c].products[i].id) = Null}
        exceeding == {i \in (1..n) \ missing :
                        calls[c].products[i].quantity >
                          Find(calls[c].existingProducts, calls[c].products[i].id)[1].quantity}
        Shape(offending) ==
          /\ offending # {}
          /\ calls[c].error.first =
               Some(calls[c].products[CHOOSE i \in offending : \A j \in offending : i <= j].id)
          /\ calls[c].error.others =
               IF Cardinality(offending) > 1 THEN <<Cardinality(offending) - 1>> ELSE <<>>
    IN  /\ calls[c].error.kind = "ProductNotFound" => Shape(missing)
        /\ calls[c].error.kind = "InsufficientStock" => Shape(exceeding)

\* C6: the outcome of a call whose collaborators all answered follows the
\* precedence unknown customer, empty request, missing product, quantity
\* above stock; it succeeds only when none of the four applies.
C6_FailurePrecedence ==
  \A c \in DOMAIN calls :
    LET n == Len(calls[c].products)
        missing == {i \in 1..n : Find(calls[c].existingProducts, calls[c].products[i].id) = Null}
        exceeding == {i \in (1..n) \ missing :
                        calls[c].products[i].quantity >
                          Find(calls[c].existingProducts, calls[c].products[i].id)[1].quantity}
        expected == IF calls[c].customer_id \notin Customers THEN "CustomerNotFound"
                    ELSE IF n = 0 THEN "EmptyOrder"
                    ELSE IF missing # {} THEN "ProductNotFound"
                    ELSE IF exceeding # {} THEN "InsufficientStock"
                    ELSE "none"
        validated == \/ calls[c].pc \in {"create", "updateQuantity", "done"}
                     \/ calls[c].pc = "failed" /\ calls[c].error.kind \in ValidationKinds
    IN  validated => calls[c].error.kind = expected

\* C7: no product's stored quantity is ever negative.
C7_StockNeverNegative == \A p \in CatalogIds : stock[p] >= 0

\* two calls have applied their updates, one of them for a request that
\* repeats the product id, and the product's stock is used up
C7_Witness ==
  \E c, d \in DOMAIN calls :
    /\ c # d
    /\ calls[c].pc = "done" /\ calls[d].pc = "done"
    /\ Len(calls[c].productsToUpdate) >= 2
    /\ \A i \in 1..Len(calls[c].products) : calls[c].products[i].quantity > 0
    /\ \A i \in 1..Len(calls[d].products) : calls[d].products[i].quantity > 0
    /\ Len(calls[d].products) > 0
    /\ stock[SharedProduct] = 0

\* C8: a line for an existing product with a quantity of zero or less is never
\* accepted: no created order holds such a line and no call's update leaves a
\* product with more stock than the call fetched.
C8_NonPositiveQuantityRejected ==
  \A c \in DOMAIN calls :
    /\ calls[c].created =>
         \A i \in 1..Len(calls[c].order[1].products) :
           calls[c].order[1].products[i].quantity > 0
    /\ (calls[c].pc = "done" /\ lastUpdate = Some(c)) =>
         \A k \in 1..Len(calls[c].existingProducts) :
           stock[calls[c].existingProducts[k].id] <= calls[c].existingProducts[k].quantity

\* C9: a call that has ended, by returning or by any failure, has either
\* stored its order and applied its stock updates, or done neither.
C9_OrderAndStockCommitTogether ==
  \A c \in DOMAIN calls :
    calls[c].pc \in Terminal => (calls[c].created <=> calls[c].updated)

\* C10: the stored quantity of a product is the one the last call to update it
\* computed from its own fetch: that call's fetched quantity minus the
\* quantity of its last line for the product, whatever other calls ordered
\* in between.
C10_LastWriterStaleSnapshot ==
  \A c \in DOMAIN calls :
    lastUpdate = Some(c) =>
      \A k \in 1..Len(calls[c].existingProducts) :
        LET e == calls[c].existingProducts[k]
            lines == calls[c].sanitizedProducts
            mine == {i \in 1..Len(lines) : lines[i].product_id = e.id}
        IN  mine # {} =>
              stock[e.id] =
                e.quantity - lines[CHOOSE i \in mine : \A j \in mine : j <= i].quantity

\* two calls for the same product fetched the same quantity before either
\* updated it, both orders are stored, together they sold more than the stock
\* held, and the stored quantity shows the decrement of one call only
C10_Witness ==
  \E c, d \in DOMAIN calls :
    /\ c # d
    /\ calls[c].pc = "done" /\ calls[d].pc = "done"
    /\ calls[c].order[1] \in orders /\ calls[d].order[1] \in orders
    /\ lastUpdate = Some(d)
    /\ Len(calls[c].products) = 1 /\ Len(calls[d].products) = 1
    /\ calls[c].products[1].quantity > 0 /\ calls[d].products[1].quantity > 0
    /\ Len(calls[c].existingProducts) = 1 /\ Len(calls[d].existingProducts) = 1
    /\ calls[c].existingProducts[1].quantity = calls[d].existingProducts[1].quantity
    /\ calls[c].products[1].quantity + calls[d].products[1].quantity
         > calls[c].existingProducts[1].quantity
    /\ stock[SharedProduct] =
         calls[d].existingProducts[1].quantity - calls[d].products[1].quantity
====
